---- MODULE Spec2Model ----
(***************************************************************************)
(* Model of the gen-attributions graph builder: graphBuilder.buildGraph,  *)
(* buildModulesDependencyGraph, extractLicenseAndRequiredModules and the  *)
(* Module / moduleID definitions of cmd/module.go.                        *)
(*                                                                         *)
(* Module objects live in a heap (a sequence of records, a *Module is an  *)
(* index into it), so that sharing by reference through the cache is      *)
(* visible.  The recursion of buildModulesDependencyGraph is a stack of   *)
(* frames.  The proxy and the filesystem answer each source (a module     *)
(* version on the proxy, a directory on disk) with a content that is      *)
(* chosen when the source is first read and stays fixed afterwards.       *)
(***************************************************************************)
EXTENDS Integers, Sequences, FiniteSets, TLC

VARIABLES lenient, maxDepth, rootFile, world, heap, modulesCache, stack,
          pc, err, tree, log, first

vars == <<lenient, maxDepth, rootFile, world, heap, modulesCache, stack,
          pc, err, tree, log, first>>

----------------------------------------------------------------------------
(* Bounds *)

\* largest maxDepth handed to buildGraph
MaxDepthBound == 2
\* longest require list of the root go.mod
MaxRootReqs == 2

----------------------------------------------------------------------------
(* Data: module.Version, modfile.File, Module, License *)

Paths == {"a", "b"}
Versions == {"v1"}
\* directories a replace statement points to
RelPaths == {"x"}

\* a nil *module.Version and a nil *License
NilVersion == [Path |-> "<nil>", Version |-> "<nil>"]
NilLicense == [Name |-> "<nil>", Data |-> <<>>]

\* the identities a go.mod can require
Identities == [Path : Paths, Version : Versions]
\* the identities a replace statement names
Replaceable == {[Path |-> "a", Version |-> "v1"]}
\* the targets of a replace statement (local paths carry no version)
Replacements == [Path : RelPaths, Version : {""}]

SeqsUpTo(S, n) == UNION {[1..k -> S] : k \in 0..n}

\* modfile.File: the Require list and the Replace list of a parsed go.mod
ModFilesUpTo(n) ==
    [Require : SeqsUpTo(Identities, n),
     Replace : SeqsUpTo([Old : Replaceable, New : Replacements], 1)]

\* the go.mod files of the root module, and those of the dependencies, which
\* require one module or none
RootModFiles == ModFilesUpTo(MaxRootReqs)
ModFiles == ModFilesUpTo(1)

EmptyModFile == [Require |-> <<>>, Replace |-> <<>>]

\* the main module of the root go.mod (modRoot.ModFile.Module.Mod)
RootVersion == [Path |-> "root", Version |-> ""]
\* RootPath of the root ModRoot, as a list of path elements
RootDir == <<"root">>

\* What a source holds, as the code's searches see it.  ok: the download (or
\* the ReadDir) succeeds; lic: isLicenseFilename matches no file, or the file
\* it matches holds a text the classifier knows, or one it does not know;
\* gomod: the search for go.mod finds no file, or a go.mod that does not
\* parse, or a go.mod that parses to file.
Contents ==
    {[ok |-> FALSE, lic |-> "none", gomod |-> "none", file |-> EmptyModFile]}
    \cup [ok : {TRUE}, lic : {"none", "MIT", "junk"}, gomod : {"none", "bad"},
          file : {EmptyModFile}]
    \cup [ok : {TRUE}, lic : {"none", "MIT", "junk"}, gomod : {"ok"},
          file : ModFiles]

\* The contents a run can tell apart: what the code does not read of a source
\* (the go.mod after a fatal license error, the files of a directory whose
\* license cannot be classified) is left at its default.
Readable(len, local) ==
    {c \in Contents :
        LET unclassified == c.lic = "junk" \/ (c.lic = "none" /\ ~len)
        IN  /\ (~local /\ c.lic = "none" /\ ~len) => c.gomod = "none"
            /\ (local /\ unclassified) => c.gomod = "none"
            /\ unclassified => c.file = EmptyModFile}

\* Module struct
NewModule(version, replacedBy) ==
    [Version |-> version, ReplacedBy |-> replacedBy,
     License |-> NilLicense, Dependencies |-> <<>>]

----------------------------------------------------------------------------
(* Module.moduleID *)

\* the string built by moduleID, as the list of its formatted pieces; the
\* Sprintf of the replacement detail is discarded, so the detail stays ""
moduleID(m) ==
    LET replaceByDetail == <<>>
    IN  <<m.Version.Version, "@", m.Version.Path>> \o replaceByDetail

----------------------------------------------------------------------------
(* loadModulesFromModFile *)

RECURSIVE replacementLookup(_, _, _)
\* replacementMap[v] after the Replace entries 1..n were stored in order
replacementLookup(replace, n, v) ==
    IF n = 0 THEN NilVersion
    ELSE IF replace[n].Old = v THEN replace[n].New
    ELSE replacementLookup(replace, n - 1, v)

\* the Module structs of the require list, in the order of the go.mod
loadModulesFromModFile(file) ==
    [i \in 1..Len(file.Require) |->
        NewModule(file.Require[i],
                  replacementLookup(file.Replace, Len(file.Replace),
                                    file.Require[i]))]

----------------------------------------------------------------------------
(* collaborators *)

\* filepath.Join(rootPath, rel) for a one-element relative path
Join(rootPath, rel) == Append(rootPath, rel)

\* a branch test that never takes the replacement branch
isReplacedNever(m) == FALSE

\* the branch test of extractLicenseAndRequiredModules: mod.ReplacedBy != nil
isReplaced(m) == m.ReplacedBy # NilVersion

\* the source read for a module: the replacement directory, else the proxy
SourceOf(rootPath, m) ==
    IF isReplaced(m)
    THEN <<"dir">> \o Join(rootPath, m.ReplacedBy.Path)
    ELSE <<"proxy", m.Version.Path, m.Version.Version>>

\* the bytes of the license file of a content
LicenseBytes(c) == IF c.lic = "none" THEN <<>> ELSE <<c.lic>>

\* extractLicense: the license of the archive, or ErrorLicenseNotFound
extractLicense(c) ==
    IF c.lic = "none"
    THEN [license |-> <<>>, err |-> "ErrorLicenseNotFound"]
    ELSE [license |-> LicenseBytes(c), err |-> "nil"]

\* getRequiredModulesFromBytes: modfile.Parse, then a ModRoot without RootPath
getRequiredModulesFromBytes(c) ==
    IF c.gomod = "bad"
    THEN [modRoot |-> <<>>, err |-> "ParseFailure"]
    ELSE [modRoot |-> <<[ModFile |-> c.file, RootPath |-> <<>>]>>,
          err |-> "nil"]

\* getRequiredModules: the /go.mod of the archive, or ErrorGoModFileNotFound
getRequiredModules(c) ==
    IF c.gomod = "none"
    THEN [modRoot |-> <<>>, err |-> "ErrorGoModFileNotFound"]
    ELSE getRequiredModulesFromBytes(c)

\* getRequiredModulesFromFile: ReadFile, modfile.Parse, RootPath = Dir(filename)
getRequiredModulesFromFile(fullPath, c) ==
    IF c.gomod = "none" THEN [modRoot |-> <<>>, err |-> "ReadFileError"]
    ELSE IF c.gomod = "bad" THEN [modRoot |-> <<>>, err |-> "ParseFailure"]
    ELSE [modRoot |-> <<[ModFile |-> c.file, RootPath |-> fullPath]>>,
          err |-> "nil"]

\* licenseClassifierWrapper.detectLicense: the label of a known license text,
\* an error for any other text
detectLicense(license) ==
    IF license = <<"MIT">>
    THEN [name |-> "MIT", err |-> "nil"]
    ELSE [name |-> "", err |-> "ClassificationFailure"]

----------------------------------------------------------------------------
(* graphBuilder.extractLicenseAndRequiredModules *)

Result(exit, e, childModRoot, license) ==
    [exit |-> exit, err |-> e, childModRoot |-> childModRoot,
     license |-> license]

\* the replacement branch: the directory is listed, the license file and the
\* go.mod are read from it, and the error of getRequiredModulesFromFile is
\* dropped.  A ReadDir error ends the process (log.Fatal).
extractLocal(rootPath, m, c) ==
    LET fullPath == Join(rootPath, m.ReplacedBy.Path)
        req == getRequiredModulesFromFile(fullPath, c)
    IN  IF ~c.ok THEN Result(TRUE, "nil", <<>>, <<>>)
        ELSE Result(FALSE, "nil", req.modRoot, LicenseBytes(c))

\* the proxy branch with a missing license fatal in lenient mode too
extractRemoteLicenseFatal(m, c) ==
    LET lic == extractLicense(c)
        req == getRequiredModules(c)
    IN  IF ~c.ok /\ lenient THEN Result(FALSE, "nil", <<>>, <<>>)
        ELSE IF ~c.ok THEN Result(FALSE, "DownloadFailure", <<>>, <<>>)
        ELSE IF lic.err # "nil"
        THEN Result(FALSE, lic.err, <<>>, <<>>)
        ELSE IF req.err # "nil" /\ req.err # "ErrorGoModFileNotFound"
        THEN Result(FALSE, req.err, <<>>, <<>>)
        ELSE Result(FALSE, "nil", req.modRoot, lic.license)

\* the proxy branch with a download error returned in lenient mode too
extractRemoteDownloadFatal(m, c) ==
    LET lic == extractLicense(c)
        req == getRequiredModules(c)
    IN  IF ~c.ok THEN Result(FALSE, "DownloadFailure", <<>>, <<>>)
        ELSE IF lic.err # "nil"
                /\ ~(lic.err = "ErrorLicenseNotFound" /\ lenient)
        THEN Result(FALSE, lic.err, <<>>, <<>>)
        ELSE IF req.err # "nil" /\ req.err # "ErrorGoModFileNotFound"
        THEN Result(FALSE, req.err, <<>>, <<>>)
        ELSE Result(FALSE, "nil", req.modRoot, lic.license)

\* the proxy branch with ErrorGoModFileNotFound returned like any error
extractRemoteGoModFatal(m, c) ==
    LET lic == extractLicense(c)
        req == getRequiredModules(c)
    IN  IF ~c.ok /\ lenient THEN Result(FALSE, "nil", <<>>, <<>>)
        ELSE IF ~c.ok THEN Result(FALSE, "DownloadFailure", <<>>, <<>>)
        ELSE IF lic.err # "nil"
                /\ ~(lic.err = "ErrorLicenseNotFound" /\ lenient)
        THEN Result(FALSE, lic.err, <<>>, <<>>)
        ELSE IF req.err # "nil"
        THEN Result(FALSE, req.err, <<>>, <<>>)
        ELSE Result(FALSE, "nil", req.modRoot, lic.license)

\* the proxy branch: download, extractLicense, getRequiredModules
extractRemote(m, c) ==
    LET lic == extractLicense(c)
        req == getRequiredModules(c)
    IN  IF ~c.ok /\ lenient THEN Result(FALSE, "nil", <<>>, <<>>)
        ELSE IF ~c.ok THEN Result(FALSE, "DownloadFailure", <<>>, <<>>)
        ELSE IF lic.err # "nil"
                /\ ~(lic.err = "ErrorLicenseNotFound" /\ lenient)
        THEN Result(FALSE, lic.err, <<>>, <<>>)
        ELSE IF req.err # "nil" /\ req.err # "ErrorGoModFileNotFound"
        THEN Result(FALSE, req.err, <<>>, <<>>)
        ELSE Result(FALSE, "nil", req.modRoot, lic.license)

extractLicenseAndRequiredModules(rootPath, m, c) ==
    IF isReplaced(m)
    THEN extractLocal(rootPath, m, c)
    ELSE extractRemote(m, c)

\* missing bytes in lenient mode pass without error and without a License
classifyNoPlaceholder(m, license) ==
    IF lenient /\ Len(license) = 0
    THEN [lic |-> NilLicense, err |-> "nil", classifier |-> FALSE]
    ELSE [lic |-> [Name |-> detectLicense(license).name, Data |-> license],
          err |-> detectLicense(license).err, classifier |-> TRUE]

\* the placeholder License for missing bytes whatever the mode
classifyPlaceholderAlways(m, license) ==
    IF Len(license) = 0
    THEN [lic |-> [Name |-> "Unknown",
                   Data |-> <<"WARNING", m.Version.Path, m.Version.Version>>],
          err |-> "nil", classifier |-> FALSE]
    ELSE [lic |-> [Name |-> detectLicense(license).name, Data |-> license],
          err |-> detectLicense(license).err, classifier |-> TRUE]

\* the License built from the extracted bytes: the placeholder in lenient mode
\* when there are no bytes, else what the classifier says
classify(m, license) ==
    IF lenient /\ Len(license) = 0
    THEN [lic |-> [Name |-> "Unknown",
                   Data |-> <<"WARNING", m.Version.Path, m.Version.Version>>],
          err |-> "nil", classifier |-> FALSE]
    ELSE [lic |-> [Name |-> detectLicense(license).name, Data |-> license],
          err |-> detectLicense(license).err, classifier |-> TRUE]

----------------------------------------------------------------------------
(* graphBuilder: cache, buildGraph, buildModulesDependencyGraph *)

\* getModuleFromCache: is the module's ID a key of the cache
cached(m) == moduleID(m) \in DOMAIN modulesCache

\* cacheModule: the cache after storing the object p (heap h) under its ID
cacheModule(h, p) ==
    [k \in DOMAIN modulesCache \cup {moduleID(h[p])} |->
        IF k = moduleID(h[p]) THEN p ELSE modulesCache[k]]

\* a frame that does not count the depth of its call
FrameSameDepth(rootPath, mods, depth) ==
    [rootPath |-> rootPath, mods |-> mods, idx |-> 1,
     depth |-> IF depth = 0 THEN 0 ELSE depth - 1]

\* the frame of one call of buildModulesDependencyGraph: the RootPath of its
\* modRoot, its mods (pointers), the position of its loop and its depth
Frame(rootPath, mods, depth) ==
    [rootPath |-> rootPath, mods |-> mods, idx |-> 1, depth |-> depth]

Top == stack[Len(stack)]
\* the module the loop of the running call is at
Cur == Top.mods[Top.idx]
InLoop == pc = "running" /\ Len(stack) > 0 /\ Top.idx <= Len(Top.mods)
\* the stack with the loop of its top frame moved to the next module
Advance(s) == [s EXCEPT ![Len(s)].idx = @ + 1]

\* the pointers of n objects allocated after the objects of heap h
Fresh(h, n) == [i \in 1..n |-> Len(h) + i]

\* the test of the depth bound, passing the bound by one
atMaxDepthLate(depth) == depth > maxDepth

\* the loop's test of the depth bound
atMaxDepth(depth) == depth = maxDepth

\* an entry of the call log: what was done, to which module, at which depth
\* and, for the resolver and for a cache hit, which source holds the module
Event(op, p, depth, src) ==
    [op |-> op, mod |-> p, depth |-> depth, src |-> src]

Init ==
    /\ lenient \in BOOLEAN
    /\ maxDepth \in 0..MaxDepthBound
    /\ rootFile \in RootModFiles
    /\ world = <<>>
    /\ heap = <<>>
    /\ modulesCache = <<>>
    /\ stack = <<>>
    /\ pc = "start"
    /\ err = "nil"
    /\ tree = 0
    /\ log = <<>>
    /\ first = 0

\* buildGraph up to its call of buildModulesDependencyGraph
BuildGraph ==
    /\ pc = "start"
    /\ LET requiredModules == loadModulesFromModFile(rootFile)
       IN  /\ heap' = heap \o requiredModules
           /\ stack' = <<Frame(RootDir, Fresh(heap, Len(requiredModules)), 0)>>
    /\ pc' = "running"
    /\ UNCHANGED <<first, lenient, maxDepth, rootFile, world, modulesCache,
                   err, tree, log>>

\* the loop at depth == maxDepth: continue
Skip ==
    /\ InLoop
    /\ atMaxDepth(Top.depth)
    /\ stack' = Advance(stack)
    /\ log' = Append(log, Event("skip", Cur, Top.depth, <<>>))
    /\ UNCHANGED <<first, lenient, maxDepth, rootFile, world, heap,
                   modulesCache, pc, err, tree>>

\* a cache hit that takes over the License only
fillLicenseOnly(h, p, cachedMod) ==
    [h EXCEPT ![p].License = h[cachedMod].License]

\* a cache hit with its two assignments the wrong way round
fillCachedFromModule(h, p, cachedMod) ==
    [h EXCEPT ![cachedMod].Dependencies = h[p].Dependencies,
              ![cachedMod].License = h[p].License]

\* the two assignments of a cache hit: the heap h after the module p took over
\* the Dependencies (the same pointers) and the License of the object cachedMod
fillFromCache(h, p, cachedMod) ==
    [h EXCEPT ![p].Dependencies = h[cachedMod].Dependencies,
              ![p].License = h[cachedMod].License]

\* the module is in the cache: take over its Dependencies and its License
CacheHit ==
    /\ InLoop
    /\ ~atMaxDepth(Top.depth)
    /\ cached(heap[Cur])
    /\ heap' = fillFromCache(heap, Cur, modulesCache[moduleID(heap[Cur])])
    /\ stack' = Advance(stack)
    /\ log' = Append(log, Event("hit", Cur, Top.depth,
                                 SourceOf(Top.rootPath, heap[Cur])))
    /\ UNCHANGED <<first, lenient, maxDepth, rootFile, world, modulesCache,
                   pc, err, tree>>

\* a source that may answer every read with another content
contentOfAnew(src, mod) == Readable(lenient, isReplaced(mod))

\* what downloadModule or the directory listing can return for a source: the
\* content it returned before, any content when it is read for the first time
contentOf(src, mod) ==
    IF src \in DOMAIN world THEN {world[src]}
    ELSE Readable(lenient, isReplaced(mod))

\* the module is not in the cache: extractLicenseAndRequiredModules, the
\* classification, and either the recursive call or the store in the cache
Resolve ==
    /\ InLoop
    /\ ~atMaxDepth(Top.depth)
    /\ ~cached(heap[Cur])
    /\ LET mod == heap[Cur]
           src == SourceOf(Top.rootPath, mod)
       IN \E c \in contentOf(src, mod) :
          LET r == extractLicenseAndRequiredModules(Top.rootPath, mod, c)
              cl == classify(mod, r.license)
              childModules ==
                  IF r.childModRoot = <<>> THEN <<>>
                  ELSE loadModulesFromModFile(r.childModRoot[1].ModFile)
              licensed == [heap EXCEPT ![Cur].License = cl.lic]
              events ==
                  <<Event("resolve", Cur, Top.depth, src)>>
                  \o (IF ~isReplaced(mod)
                      THEN <<Event("download", Cur, Top.depth, src)>> ELSE <<>>)
                  \o (IF ~r.exit /\ r.err = "nil" /\ cl.classifier
                      THEN <<Event("classify", Cur, Top.depth, src)>> ELSE <<>>)
          IN  /\ world' = [s \in DOMAIN world \cup {src} |->
                              IF s = src THEN c ELSE world[s]]
              /\ log' = log \o events
                         \o (IF ~r.exit /\ r.err = "nil" /\ cl.err = "nil"
                                 /\ r.childModRoot = <<>>
                             THEN <<Event("store", Cur, Top.depth, <<>>)>>
                             ELSE <<>>)
              /\ IF r.exit
                 THEN /\ pc' = "exited"
                      /\ stack' = <<>>
                      /\ UNCHANGED <<heap, modulesCache, err>>
                 ELSE IF r.err # "nil" \/ cl.err # "nil"
                 THEN /\ pc' = "failed"
                      /\ err' = IF r.err # "nil" THEN r.err ELSE cl.err
                      /\ stack' = <<>>
                      /\ UNCHANGED <<heap, modulesCache>>
                 ELSE IF r.childModRoot # <<>>
                 THEN /\ heap' = licensed \o childModules
                      /\ stack' = Append(stack,
                            Frame(r.childModRoot[1].RootPath,
                                  Fresh(heap, Len(childModules)),
                                  Top.depth + 1))
                      /\ UNCHANGED <<modulesCache, pc, err>>
                 ELSE /\ heap' = licensed
                      /\ modulesCache' = cacheModule(licensed, Cur)
                      /\ stack' = Advance(stack)
                      /\ UNCHANGED <<pc, err>>
    /\ UNCHANGED <<first, lenient, maxDepth, rootFile, tree>>

\* a recursive call returns nil: the caller sets mod.Dependencies, stores the
\* module in the cache and goes on with its loop
Return ==
    /\ pc = "running"
    /\ Len(stack) > 1
    /\ Top.idx > Len(Top.mods)
    /\ LET caller == stack[Len(stack) - 1]
           p == caller.mods[caller.idx]
           linked == [heap EXCEPT ![p].Dependencies = Top.mods]
       IN  /\ heap' = linked
           /\ modulesCache' = cacheModule(linked, p)
           /\ stack' = Advance(SubSeq(stack, 1, Len(stack) - 1))
           /\ log' = Append(log, Event("store", p, caller.depth, <<>>))
    /\ UNCHANGED <<first, lenient, maxDepth, rootFile, world, pc, err, tree>>

\* the outermost call returns nil: buildGraph builds the Tree
Finish ==
    /\ pc = "running"
    /\ Len(stack) = 1
    /\ Top.idx > Len(Top.mods)
    /\ heap' = Append(heap, [NewModule(RootVersion, NilVersion)
                               EXCEPT !.Dependencies = Top.mods])
    /\ tree' = Len(heap) + 1
    /\ stack' = <<>>
    /\ pc' = "done"
    /\ UNCHANGED <<first, lenient, maxDepth, rootFile, world, modulesCache,
                   err, log>>

Next == BuildGraph \/ Skip \/ CacheHit \/ Resolve \/ Return \/ Finish

Spec == Init /\ [][Next]_vars

\* the build is one sequential call: every step that can be taken is taken
FairSpec == Spec /\ WF_vars(Next)

\* buildGraph is called a second time with the same modRoot and maxDepth, on
\* the same graphBuilder (its cache as the first call left it) or on one that
\* newGraphBuilder just made (empty cache); the first Tree is kept aside
BuildGraphAgain ==
    /\ pc = "done"
    /\ first = 0
    /\ \E sameBuilder \in BOOLEAN :
          modulesCache' = IF sameBuilder THEN modulesCache ELSE <<>>
    /\ first' = tree
    /\ tree' = 0
    /\ pc' = "start"
    /\ UNCHANGED <<lenient, maxDepth, rootFile, world, heap, stack, err, log>>

NextTwice == Next \/ BuildGraphAgain

\* two calls of buildGraph, one after the other
TwoRuns == Init /\ [][NextTwice]_vars

TypeOK ==
    /\ lenient \in BOOLEAN
    /\ maxDepth \in 0..MaxDepthBound
    /\ rootFile \in RootModFiles
    /\ pc \in {"start", "running", "done", "failed", "exited"}
    /\ err \in {"nil", "DownloadFailure", "ErrorLicenseNotFound",
                "ParseFailure", "ClassificationFailure",
                "ErrorGoModFileNotFound", "ReadFileError"}
    /\ tree \in 0..Len(heap)
    /\ first \in 0..Len(heap)
    /\ \A i \in 1..Len(stack) :
          \A j \in 1..Len(stack[i].mods) : stack[i].mods[j] \in 1..Len(heap)
    /\ \A k \in DOMAIN modulesCache : modulesCache[k] \in 1..Len(heap)

----------------------------------------------------------------------------
(* Vocabulary of the properties *)

Range(f) == {f[i] : i \in DOMAIN f}

\* the positions of the log where op happened
Calls(op) == {i \in 1..Len(log) : log[i].op = op}

\* the content the resolver read at log position i
ContentAt(i) == world[log[i].src]
\* was the source of log position i a proxy archive (else a directory)
Remote(i) == log[i].src[1] = "proxy"

\* the build stopped without a tree: an error was returned or log.Fatal ran
Stopped == pc \in {"failed", "exited"}
Terminated == pc \in {"done", "failed", "exited"}

\* the resolver call during which the build stopped, if it stopped
AbortedBy(i) ==
    /\ Stopped
    /\ i \in Calls("resolve")
    /\ \A j \in Calls("resolve") : j <= i

\* the (identity, replacement) pair of a module
PairOf(p) == <<heap[p].Version, heap[p].ReplacedBy>>

\* a node without License and without Dependencies
Bare(p) == heap[p].License = NilLicense /\ heap[p].Dependencies = <<>>

RECURSIVE Closure(_)
\* the objects reachable from S through Dependencies
Closure(S) ==
    LET T == S \cup UNION {Range(heap[p].Dependencies) : p \in S}
    IN  IF T = S THEN S ELSE Closure(T)

\* the nodes of the returned tree, the synthetic root included
TreeNodes == IF tree = 0 THEN {} ELSE Closure({tree})
\* the children of the root of the returned tree
RootChildren == IF tree = 0 THEN <<>> ELSE heap[tree].Dependencies

----------------------------------------------------------------------------
(* Properties *)

\* C1: within one buildGraph run the resolver
\* (extractLicenseAndRequiredModules) is invoked at most once for any
\* (module identity, replacement) pair, cycles included.
C1_ResolvedAtMostOnce ==
    \A i, j \in Calls("resolve") :
        PairOf(log[i].mod) = PairOf(log[j].mod) => i = j

\* C2: two requirements of the same path and version that differ in their
\* replacement have different cache keys.
C2_KeyIncludesReplacement ==
    \A p, q \in 1..Len(heap) :
        (/\ heap[p].Version = heap[q].Version
         /\ heap[p].ReplacedBy # heap[q].ReplacedBy)
        => moduleID(heap[p]) # moduleID(heap[q])

\* C3: buildGraph terminates for every manifest graph, cyclic ones included:
\* the call nested i-1 deep runs at depth i-1, no call runs deeper than
\* maxDepth, and every build ends (a tree, an error or log.Fatal).
C3_TerminatesWithinDepth ==
    /\ [](\A i \in 1..Len(stack) :
             stack[i].depth = i - 1 /\ stack[i].depth <= maxDepth)
    /\ [](\A i \in 1..Len(log) : log[i].depth <= maxDepth)
    /\ <>Terminated

\* a build over a cycle that went through: a pair resolved again below its
\* own unfinished resolution, the re-entry stopped by the depth bound
C3_Witness ==
    /\ pc = "done"
    /\ \E i, j \in Calls("resolve") :
          /\ i < j
          /\ PairOf(log[i].mod) = PairOf(log[j].mod)
          /\ log[j].depth > log[i].depth
    /\ \E k \in Calls("skip") : log[k].depth = maxDepth

\* C4: buildGraph(root, 0) succeeds without any resolver, classifier or
\* cache call and its root children are the root go.mod's requirements as
\* bare nodes; buildGraph(root, 1) returns root children that carry a License
\* and whose own children are bare.
C4_DepthZeroAndOne ==
    /\ (maxDepth = 0 /\ pc # "start") =>
          /\ ~Stopped
          /\ \A i \in 1..Len(log) : log[i].op = "skip"
          /\ modulesCache = <<>>
          /\ world = <<>>
          /\ pc = "done" =>
                /\ Len(RootChildren) = Len(rootFile.Require)
                /\ \A i \in 1..Len(RootChildren) :
                      heap[RootChildren[i]]
                          = loadModulesFromModFile(rootFile)[i]
    /\ (maxDepth = 1 /\ pc = "done") =>
          \A c \in Range(RootChildren) :
              /\ heap[c].License # NilLicense
              /\ \A g \in Range(heap[c].Dependencies) : Bare(g)

\* a finished build of depth 0 over two requirements, one of them replaced
C4_Witness ==
    /\ maxDepth = 0
    /\ pc = "done"
    /\ Len(RootChildren) = 2
    /\ \E c \in Range(RootChildren) : heap[c].ReplacedBy # NilVersion
    /\ \A c \in Range(RootChildren) : Bare(c)

\* C5 as stated: for maxDepth >= 1 every node discovered at exactly depth
\* maxDepth is in the returned tree as a leaf whose License was resolved.
C5_LeafAtMaxDepthLicensed ==
    (pc = "done" /\ maxDepth >= 1) =>
        \A i \in 1..Len(log) :
            log[i].depth = maxDepth =>
                /\ log[i].mod \in TreeNodes
                /\ heap[log[i].mod].Dependencies = <<>>
                /\ heap[log[i].mod].License # NilLicense

\* C5 amended: for maxDepth >= 1 every node discovered at exactly depth
\* maxDepth is in the returned tree as a leaf without Dependencies and
\* without License: the loop skips it whole.
C5_LeafAtMaxDepthBare ==
    (pc = "done" /\ maxDepth >= 1) =>
        \A i \in 1..Len(log) :
            log[i].depth = maxDepth =>
                /\ log[i].op = "skip"
                /\ log[i].mod \in TreeNodes
                /\ Bare(log[i].mod)

\* a finished build that met a module at depth maxDepth, below a licensed one
C5_Witness ==
    /\ pc = "done"
    /\ maxDepth >= 1
    /\ \E i \in Calls("skip") :
          /\ log[i].depth = maxDepth
          /\ \E p \in TreeNodes :
                /\ heap[p].License # NilLicense
                /\ log[i].mod \in Range(heap[p].Dependencies)

\* every source read so far is a proxy archive that downloads, has no
\* license file (extractLicense returns ErrorLicenseNotFound) and no malformed
\* go.mod, and at least one was read
AllLicenseNotFound ==
    /\ world # <<>>
    /\ \A s \in DOMAIN world :
          /\ s[1] = "proxy"
          /\ world[s].ok
          /\ world[s].lic = "none"
          /\ world[s].gomod # "bad"

\* p was met by the loop at depth maxDepth
SkippedAtMaxDepth(p) ==
    \E i \in Calls("skip") : log[i].mod = p /\ log[i].depth = maxDepth

\* C6 as stated: when every license lookup fails with LicenseNotFound, strict
\* mode aborts with that error, and lenient mode completes with every node of
\* the tree but the root labelled "Unknown".
C6_AllUnknown ==
    (AllLicenseNotFound /\ Terminated) =>
        IF lenient
        THEN /\ pc = "done"
             /\ \A p \in TreeNodes \ {tree} : heap[p].License.Name = "Unknown"
        ELSE pc = "failed" /\ err = "ErrorLicenseNotFound"

\* C6 amended: when every license lookup fails with LicenseNotFound, strict
\* mode aborts with that error at the first lookup, and lenient mode completes
\* with every node of the tree but the root either labelled "Unknown" or a bare
\* node met at depth maxDepth, which has no License.
C6_UnknownOrBare ==
    (AllLicenseNotFound /\ Terminated) =>
        IF lenient
        THEN /\ pc = "done"
             /\ \A p \in TreeNodes \ {tree} :
                   \/ heap[p].License.Name = "Unknown"
                   \/ Bare(p) /\ SkippedAtMaxDepth(p)
        ELSE /\ pc = "failed" /\ err = "ErrorLicenseNotFound"
             /\ Cardinality(Calls("resolve")) = 1

\* a finished lenient build without any license: a node labelled "Unknown"
\* with a bare child
C6_Witness ==
    /\ AllLicenseNotFound
    /\ lenient
    /\ pc = "done"
    /\ \E p \in TreeNodes \ {tree} :
          /\ heap[p].License.Name = "Unknown"
          /\ \E q \in Range(heap[p].Dependencies) : Bare(q)

\* C7: in strict mode a resolved module whose source has no license file
\* aborts the build, from the proxy (ErrorLicenseNotFound) and from a
\* replacement directory (the classifier's error on no text); such a module
\* gets a License only in lenient mode.
C7_StrictNoLicenseFatal ==
    \A i \in Calls("resolve") :
        (ContentAt(i).ok /\ ContentAt(i).lic = "none") =>
            IF lenient
            THEN ~AbortedBy(i) => heap[log[i].mod].License.Name = "Unknown"
            ELSE /\ AbortedBy(i)
                 /\ pc = "failed"
                 /\ Remote(i) => err = "ErrorLicenseNotFound"
                 /\ ~Remote(i) => err = "ClassificationFailure"
                 /\ heap[log[i].mod].License = NilLicense

\* a strict build aborted on a replacement directory without license file
C7_Witness ==
    /\ ~lenient
    /\ pc = "failed"
    /\ \E i \in Calls("resolve") :
          /\ ~Remote(i)
          /\ ContentAt(i).ok
          /\ ContentAt(i).lic = "none"
          /\ AbortedBy(i)

\* C8: a failed download aborts the build in strict mode (an error, no tree);
\* in lenient mode it does not: the module gets the "Unknown" placeholder
\* License and no children, is stored in the cache, and the loop goes on.
C8_DownloadFailure ==
    \A i \in Calls("resolve") :
        (Remote(i) /\ ~ContentAt(i).ok) =>
            IF lenient
            THEN /\ ~AbortedBy(i)
                 /\ heap[log[i].mod].License.Name = "Unknown"
                 /\ heap[log[i].mod].Dependencies = <<>>
                 /\ \E j \in Calls("store") : j > i /\ log[j].mod = log[i].mod
            ELSE /\ AbortedBy(i)
                 /\ pc = "failed"
                 /\ err = "DownloadFailure"
                 /\ tree = 0

\* a finished lenient build in which a download failed and a later module was
\* resolved all the same
C8_Witness ==
    /\ lenient
    /\ pc = "done"
    /\ \E i, j \in Calls("resolve") :
          /\ i < j
          /\ Remote(i)
          /\ ~ContentAt(i).ok
          /\ heap[log[j].mod].License.Name = "MIT"

\* the go.mod of the source read at log position i was parsed
Parsed(i) ==
    /\ ContentAt(i).ok
    /\ ContentAt(i).gomod # "none"
    /\ Remote(i) => (ContentAt(i).lic # "none" \/ lenient)

\* C9: a go.mod that does not parse is fatal on the proxy path and on the
\* replacement path, in both modes: the build returns the parse error.
C9_ParseFailureFatal ==
    \A i \in Calls("resolve") :
        (Parsed(i) /\ ContentAt(i).gomod = "bad") =>
            AbortedBy(i) /\ pc = "failed" /\ err = "ParseFailure"

\* the source read at log position i has no go.mod and a license the build
\* accepts
LeafSource(i) ==
    /\ ContentAt(i).ok
    /\ ContentAt(i).gomod = "none"
    /\ ContentAt(i).lic = "MIT" \/ (lenient /\ ContentAt(i).lic = "none")

\* C10: a resolved module without go.mod (archive or replacement directory)
\* becomes a leaf with a License, is stored in the cache and does not abort
\* the build, in both modes; the missing go.mod is never the build's error.
C10_MissingManifestLeaf ==
    /\ err \notin {"ErrorGoModFileNotFound", "ReadFileError"}
    /\ \A i \in Calls("resolve") :
          LeafSource(i) =>
              /\ ~AbortedBy(i)
              /\ heap[log[i].mod].License # NilLicense
              /\ heap[log[i].mod].Dependencies = <<>>
              /\ moduleID(heap[log[i].mod]) \in DOMAIN modulesCache
              /\ \E j \in Calls("store") : j > i /\ log[j].mod = log[i].mod

\* a finished strict build with an archive and a replacement directory that
\* both lack a go.mod
C10_Witness ==
    /\ ~lenient
    /\ pc = "done"
    /\ \E i, j \in Calls("resolve") :
          /\ Remote(i) /\ LeafSource(i)
          /\ ~Remote(j) /\ LeafSource(j)

\* the resolver call that made the call running at log position i: the last
\* one before i at the depth above
ParentCall(i) ==
    CHOOSE j \in Calls("resolve") :
        /\ j < i
        /\ log[j].depth = log[i].depth - 1
        /\ \A k \in Calls("resolve") :
              (k < i /\ log[k].depth = log[i].depth - 1) => k <= j

\* the RootPath of the go.mod that requires the module of log position i
ParentRoot(i) ==
    IF log[i].depth = 0 THEN RootDir
    ELSE IF Remote(ParentCall(i)) THEN <<>>
    ELSE Tail(log[ParentCall(i)].src)

\* C11: resolving a module that carries a replacement never downloads it; what
\* is read is the directory at the parent go.mod's RootPath joined with the
\* replacement path, and only that.
C11_ReplacedNeverDownloaded ==
    \A i \in Calls("resolve") :
        heap[log[i].mod].ReplacedBy # NilVersion =>
            /\ \A j \in Calls("download") : log[j].mod # log[i].mod
            /\ log[i].src
                  = <<"dir">> \o ParentRoot(i)
                        \o <<heap[log[i].mod].ReplacedBy.Path>>
            /\ \A s \in DOMAIN world :
                  s[1] = "proxy" =>
                      \E j \in Calls("download") : log[j].src = s

\* a finished build that resolved a replaced module below a replaced module
\* and downloaded nothing
C11_Witness ==
    /\ pc = "done"
    /\ Calls("download") = {}
    /\ \E i \in Calls("resolve") :
          /\ log[i].depth = 1
          /\ heap[log[i].mod].ReplacedBy # NilVersion
          /\ ~Remote(ParentCall(i))
          /\ heap[log[i].mod].License # NilLicense

\* the children of p are the requirements of file, one node for each, in the
\* order of the file, with the replacement the file gives each
ChildrenAre(p, file) ==
    LET want == loadModulesFromModFile(file)
        have == heap[p].Dependencies
    IN  /\ Len(have) = Len(want)
        /\ \A k \in 1..Len(want) :
              /\ heap[have[k]].Version = want[k].Version
              /\ heap[have[k]].ReplacedBy = want[k].ReplacedBy

\* the go.mod of the source that holds the module of log position i was read
\* and parses
ManifestKnown(i) ==
    /\ log[i].src \in DOMAIN world
    /\ world[log[i].src].ok
    /\ world[log[i].src].gomod = "ok"

\* C12: in the returned tree the children of every node (the root, resolved
\* nodes, nodes filled from the cache) are the requirements of the node's own
\* go.mod in its declared order, none dropped, duplicated or reordered.
C12_ChildrenInManifestOrder ==
    pc = "done" =>
        /\ ChildrenAre(tree, rootFile)
        /\ \A i \in Calls("resolve") \cup Calls("hit") :
              (log[i].mod \in TreeNodes /\ ManifestKnown(i)) =>
                  ChildrenAre(log[i].mod, world[log[i].src].file)

RECURSIVE Shape(_)
\* the tree below node p as a value: identity, replacement, license label and
\* the children in their order
Shape(p) ==
    [Version |-> heap[p].Version,
     ReplacedBy |-> heap[p].ReplacedBy,
     License |-> heap[p].License,
     Dependencies |-> [k \in 1..Len(heap[p].Dependencies) |->
                          Shape(heap[p].Dependencies[k])]]

C14_HitSharesCachedEntry ==
    [][(InLoop /\ ~atMaxDepth(Top.depth) /\ cached(heap[Cur])) =>
          LET e == modulesCache[moduleID(heap[Cur])]
          IN  /\ heap'[Cur].License = heap[e].License
              /\ heap'[Cur].Dependencies = heap[e].Dependencies
              /\ e # Cur => heap'[e] = heap[e]
              /\ Len(heap') = Len(heap)
              /\ log' = Append(log, log'[Len(log')])
              /\ log'[Len(log')].op = "hit"
              /\ world' = world
              /\ modulesCache' = modulesCache]_vars

\* a module filled from the cache: it has a License and children, and its
\* children are the child objects of another module
C14_Witness ==
    \E i \in Calls("hit") :
        /\ log[i].depth < maxDepth
        /\ heap[log[i].mod].License # NilLicense
        /\ heap[log[i].mod].Dependencies # <<>>
        /\ \E q \in 1..Len(heap) :
              /\ q # log[i].mod
              /\ heap[q].Dependencies = heap[log[i].mod].Dependencies

\* C15: once a module has been stored in the cache, no step changes its
\* License, its Dependencies or any node reachable from it, so that every
\* parent that took it over from the cache keeps seeing the same subtree.
C15_StoredNeverModified ==
    [][\A i \in Calls("store") :
          \A q \in Closure({log[i].mod}) : heap'[q] = heap[q]]_vars

\* a module stored with children, then found in the cache by a later
\* requirement, in a build that went on to return its tree
C15_Witness ==
    /\ pc = "done"
    /\ \E i \in Calls("store") :
          /\ heap[log[i].mod].Dependencies # <<>>
          /\ \E j \in Calls("hit") :
                /\ j > i
                /\ heap[log[j].mod].Dependencies = heap[log[i].mod].Dependencies

RECURSIVE Level(_)
\* the nodes of the returned tree that some path from the root reaches at
\* depth d, the children of the root being depth 0
Level(d) ==
    IF d = 0 THEN Range(RootChildren)
    ELSE UNION {Range(heap[p].Dependencies) : p \in Level(d - 1)}

\* C16: in the tree of a successful buildGraph(root, maxDepth) every node at
\* a depth below maxDepth has a License, whatever the order of the
\* requirements, resolved directly or filled from a cache entry that was
\* resolved at another depth.
C16_ShallowNodesLicensed ==
    pc = "done" =>
        \A d \in 0..(maxDepth - 1) :
            \A p \in Level(d) : heap[p].License # NilLicense

\* C17: in the tree of a successful buildGraph(root, maxDepth) no node lies
\* deeper than depth maxDepth below the root, also when a subtree comes by
\* reference from a cache entry that was resolved at a shallower depth.
C17_NoNodeBelowMaxDepth ==
    pc = "done" => Level(maxDepth + 1) = {}

\* the nodes addChildNodes visits when Tree.String renders the returned tree:
\* the children of the root and everything below them; of each it reads
\* m.License.Name
Rendered == Closure(Range(RootChildren))

\* C18: Tree.String on the tree of a successful buildGraph never reads the
\* license name of a node without License: every node below the root has a
\* License when addChildNodes visits it.
C18_RenderedNodesLicensed ==
    pc = "done" => \A p \in Rendered : heap[p].License # NilLicense

\* the modules whose resolution began and did not finish: the resolver was
\* called for them and they were not stored (the call is still running, or it
\* or a call below it ended the build)
Unfinished ==
    {log[i].mod : i \in Calls("resolve")} \ {log[i].mod : i \in Calls("store")}

\* the loop of some call has been through the module p
Visited(p) ==
    \E i \in 1..Len(log) : log[i].mod = p /\ log[i].op \in {"skip", "hit", "store"}

\* C19: at every point of a build, also after a fatal error ended it, every
\* module in the cache is fully resolved: it has a License, its resolution
\* finished, the loop over its children went through every node below it and
\* none of them is a module whose resolution failed or is still running.
C19_CacheHoldsResolvedOnly ==
    \A k \in DOMAIN modulesCache :
        LET p == modulesCache[k]
        IN  /\ heap[p].License # NilLicense
            /\ \A q \in Closure({p}) :
                  /\ q \notin Unfinished
                  /\ Visited(q)

\* a build ended by an error below a module whose resolution had begun, with
\* a module resolved before, children included, left in the cache
C19_Witness ==
    /\ pc = "failed"
    /\ Cardinality(Unfinished) >= 2
    /\ \E k \in DOMAIN modulesCache :
          heap[modulesCache[k]].Dependencies # <<>>

====
